---- MODULE Spec2Model ----
(***************************************************************************)
(* Model of src/hooks/useOrders.ts: the list-orders query (useOrders), the *)
(* update-status mutation (useUpdateOrderStatus) and the create-order      *)
(* mutation (useCreateOrder), together with the remote tables `orders` and *)
(* `order_items`, the 'orders' cache entry and the toasts they act on.     *)
(*                                                                         *)
(* Every await of the source is a point where other operations interleave: *)
(* a mutation or a fetch is a small process whose position is pc[m] / qpc. *)
(* The remote store answers each request with success or with an error,    *)
(* chosen nondeterministically; it does not enforce foreign keys in this   *)
(* model, so that what is shown about order_items is shown of the code.    *)
(***************************************************************************)
EXTENDS Integers, Sequences, FiniteSets, TLC

\* ------------------------------------------------------------------ bounds
MaxMuts == 2          \* mutation invocations (each slot is one mutate() call)
MaxItems == 2         \* longest `items` array of a create-order call
MaxTime == 2          \* last value of the clock
MaxInitOrders == 2    \* order rows present in the store at start

\* The retry count of the query client. useOrders/useMutation pass no `retry`
\* option (lines 36-69, 76-102, 109-161); the client's defaults are set where
\* the QueryClient is constructed, outside this file.
RetryCount == 0

Muts == 1..MaxMuts

\* ------------------------------------------------------------- data shapes
\* Order['status'], line 27
Statuses == {"new", "preparing", "ready", "served", "cancelled"}

\* an optional option mapping: undefined, or a mapping (Record<string, any>)
Absent == "undefined"
EmptyObj == "{}"
OptionValues == {Absent, "{size:L}"}
AddOnValues == {Absent, "{cheese:1}"}

\* one element of `items`, lines 112-118
ItemInputs == [menu_item_id : {7}, quantity : {1}, price : {5},
               selected_options : OptionValues, selected_add_ons : AddOnValues]

\* the sequences over S of length at most n
RECURSIVE SeqsUpTo(_, _)
SeqsUpTo(S, n) ==
  IF n = 0 THEN {<<>>}
  ELSE LET shorter == SeqsUpTo(S, n - 1)
       IN  shorter \cup {Append(s, x) : s \in {t \in shorter : Len(t) = n - 1}, x \in S}

ItemLists == SeqsUpTo(ItemInputs, MaxItems)

\* orderData: an Order without id, created_at, updated_at, order_items (line 111)
OrderDatas == [order_number : {"A-1"}, status : {"new"}]

NoOrderData == [order_number |-> "", status |-> "new"]
NoRow == [id |-> 0, order_number |-> "", status |-> "new", created_at |-> 0, updated_at |-> 0]
NoArgs == [kind |-> "none", id |-> 0, status |-> "new", ts |-> 0,
           orderData |-> NoOrderData, items |-> <<>>]
NoReqs == [update |-> 0, order |-> 0, items |-> 0]

VARIABLES
  orders,        \* table `orders`: rows in insertion order
  order_items,   \* table `order_items`: rows in insertion order
  now,           \* the clock (new Date(), and the store's now())
  pc,            \* pc[m]: position of mutation invocation m
  args,          \* args[m]: the variables passed to mutate()
  ret,           \* ret[m]: the row the store returned to m (data / order)
  reqs,          \* reqs[m]: remote requests m has issued, per request
  toasts,        \* toasts[m]: the notifications m has emitted
  invals,        \* invals[m]: invalidateQueries calls m has made
  cacheHas,      \* the 'orders' cache entry holds data
  cacheData,     \* the data of the 'orders' cache entry
  cacheStale,    \* the 'orders' cache entry is invalidated
  mounted,       \* useOrders has an observer (a component shows the list)
  qpc,           \* position of the current queryFn invocation
  qresp,         \* the rows the store answered the fetch in flight with
  qReqs,         \* select requests issued by the current fetch invocation
  qFailures,     \* failed attempts of the current fetch invocation
  qStatus        \* "pending" | "success" | "error" of the query

storeVars == <<orders, order_items, now>>
mutVars == <<pc, args, ret, reqs, toasts, invals>>
cacheVars == <<cacheHas, cacheData, cacheStale>>
queryVars == <<mounted, qpc, qresp, qReqs, qFailures, qStatus>>
vars == <<orders, order_items, now, pc, args, ret, reqs, toasts, invals,
          cacheHas, cacheData, cacheStale, mounted, qpc, qresp, qReqs, qFailures, qStatus>>

\* ------------------------------------------------------------ the store
\* .eq('id', id)
RowsWithId(rows, id) == {i \in DOMAIN rows : rows[i].id = id}

\* the nested relation order_items ( ... ) of one order, lines 53-62
ItemsOfOrder(items, oid) == SelectSeq(items, LAMBDA r : r.order_id = oid)

\* the order of { ascending: true }
Before_Ascending(r, s) == r.created_at < s.created_at

\* .order('created_at', { ascending: false }): r goes before s
Before(r, s) == r.created_at > s.created_at

\* insert r into the sorted sequence s, after the rows it does not go before
RECURSIVE InsertSorted(_, _)
InsertSorted(r, s) ==
  IF s = <<>> THEN <<r>>
  ELSE IF Before(r, Head(s)) THEN <<r>> \o s
  ELSE <<Head(s)>> \o InsertSorted(r, Tail(s))

RECURSIVE OrderByCreatedAt(_)
OrderByCreatedAt(rows) ==
  IF rows = <<>> THEN <<>>
  ELSE InsertSorted(Head(rows), OrderByCreatedAt(Tail(rows)))

\* the select of lines 39-64: every order with its items, newest first
SelectOrders(ords, items) ==
  OrderByCreatedAt([i \in DOMAIN ords |->
     [id |-> ords[i].id, order_number |-> ords[i].order_number,
      status |-> ords[i].status, created_at |-> ords[i].created_at,
      updated_at |-> ords[i].updated_at,
      order_items |-> ItemsOfOrder(items, ords[i].id)]])

\* the update without its .eq('id', id) filter
UpdateRows_NoFilter(rows, id, status, ts) ==
  [i \in DOMAIN rows |-> [rows[i] EXCEPT !.status = status, !.updated_at = ts]]

\* .update({ status, updated_at }).eq('id', id), line 80-81
UpdatedRow(row, status, ts) == [row EXCEPT !.status = status, !.updated_at = ts]

\* the rows of the table after the update of the rows with that id
UpdateRows(rows, id, status, ts) ==
  [i \in DOMAIN rows |-> IF rows[i].id = id THEN UpdatedRow(rows[i], status, ts) ELSE rows[i]]

\* .insert(orderData).select().single(): the store assigns id and timestamps
NewOrderRow(rows, orderData, t) ==
  [id |-> Len(rows) + 1, order_number |-> orderData.order_number,
   status |-> orderData.status, created_at |-> t, updated_at |-> t]

\* the mapping without its `|| {}`
OrDefault_Passthrough(v) == v

\* lines 130-137: items.map(item => ({ order_id: order.id, ... }))
OrDefault(v) == IF v = Absent THEN EmptyObj ELSE v

\* the mapping with order_id read from a field the order does not have
OrderItemOf_NoOrderId(order, item) ==
  [order_id |-> 0, menu_item_id |-> item.menu_item_id,
   quantity |-> item.quantity, price |-> item.price,
   selected_options |-> IF item.selected_options = Absent THEN EmptyObj ELSE item.selected_options,
   selected_add_ons |-> IF item.selected_add_ons = Absent THEN EmptyObj ELSE item.selected_add_ons]

\* line 130-137, one element
OrderItemOf(order, item) ==
  [order_id |-> order.id, menu_item_id |-> item.menu_item_id,
   quantity |-> item.quantity, price |-> item.price,
   selected_options |-> OrDefault(item.selected_options),
   selected_add_ons |-> OrDefault(item.selected_add_ons)]

OrderItemsOf(order, items) == [i \in DOMAIN items |-> OrderItemOf(order, items[i])]

\* .from('order_items').insert(orderItems): the store assigns the ids
InsertedItems(table, body) ==
  table \o [i \in DOMAIN body |->
     [id |-> Len(table) + i, order_id |-> body[i].order_id,
      menu_item_id |-> body[i].menu_item_id, quantity |-> body[i].quantity,
      price |-> body[i].price, selected_options |-> body[i].selected_options,
      selected_add_ons |-> body[i].selected_add_ons]]

\* ------------------------------------------------------------ toasts
\* toast({ title, description }) of lines 90-93 and 149-152
SuccessToast(title, description) ==
  [title |-> title, description |-> <<description>>, destructive |-> FALSE]

\* toast({ title: "Error", description: prefix + error.message,
\*         variant: "destructive" }) of lines 96-100 and 155-159
ErrorToast(prefix, message) ==
  [title |-> "Error", description |-> <<prefix, message>>, destructive |-> TRUE]

\* --------------------------------------------------------------- start
InitOrderRow(i, t) ==
  [id |-> i, order_number |-> "A-0", status |-> "new", created_at |-> t, updated_at |-> t]

\* the stores the program may find: up to MaxInitOrders rows, inserted at
\* any earlier times and in any order
InitStores ==
  UNION {{[i \in 1..n |-> InitOrderRow(i, f[i])] : f \in [1..n -> 0..1]} : n \in 0..MaxInitOrders}

\* the state after construction, over the stores of S
InitIn(S) ==
  /\ orders \in S
  /\ order_items = <<>>
  /\ now = 1
  /\ pc = [m \in Muts |-> "idle"]
  /\ args = [m \in Muts |-> NoArgs]
  /\ ret = [m \in Muts |-> NoRow]
  /\ reqs = [m \in Muts |-> NoReqs]
  /\ toasts = [m \in Muts |-> <<>>]
  /\ invals = [m \in Muts |-> 0]
  /\ cacheHas = FALSE
  /\ cacheData = <<>>
  /\ cacheStale = FALSE
  /\ mounted \in BOOLEAN
  /\ qpc = IF mounted THEN "sent" ELSE "idle"
  /\ qresp = <<>>
  /\ qReqs = IF mounted THEN 1 ELSE 0
  /\ qFailures = 0
  /\ qStatus = "pending"

\* ------------------------------------------------------------- the clock
Tick ==
  /\ now < MaxTime
  /\ now' = now + 1
  /\ UNCHANGED <<orders, order_items, mutVars, cacheVars, queryVars>>

\* ------------------------------------------------- the 'orders' cache entry
\* a new invocation of queryFn (line 38) issues the select of lines 39-64
StartFetch ==
  /\ qpc' = "sent"
  /\ qresp' = <<>>
  /\ qReqs' = 1
  /\ qFailures' = 0

\* queryClient.invalidateQueries({ queryKey: ['orders'] }), lines 89 and 148:
\* the entry is marked stale and, when observed, refetched (a fetch in flight
\* is superseded)
InvalidateOrders ==
  /\ cacheStale' = TRUE
  /\ UNCHANGED <<cacheHas, cacheData, mounted, qStatus>>
  /\ IF mounted THEN StartFetch ELSE UNCHANGED <<qpc, qresp, qReqs, qFailures>>

\* the consumer of useOrders() asks for the list again (refetch, remount,
\* window focus): lines 35-37; a fetch in flight is not doubled
Fetch ==
  /\ mounted
  /\ qpc = "idle"
  /\ StartFetch
  /\ UNCHANGED <<storeVars, mutVars, cacheVars, mounted, qStatus>>

\* the store answers the select with the rows (lines 39-64, error = null)
SelectOk ==
  /\ qpc = "sent"
  /\ qresp' = SelectOrders(orders, order_items)
  /\ qpc' = "resp_ok"
  /\ UNCHANGED <<storeVars, mutVars, cacheVars, mounted, qReqs, qFailures, qStatus>>

\* the store answers the select with an error: line 66 throws it, and the
\* query fails unless retries remain
SelectErr ==
  /\ qpc = "sent"
  /\ IF qFailures < RetryCount
       THEN /\ qReqs' = qReqs + 1
            /\ qFailures' = qFailures + 1
            /\ UNCHANGED <<qpc, qStatus>>
       ELSE /\ qpc' = "idle"
            /\ qStatus' = "error"
            /\ UNCHANGED <<qReqs, qFailures>>
  /\ UNCHANGED <<storeVars, mutVars, cacheVars, mounted, qresp>>

\* line 67: return data as Order[]; the result is cached under ['orders']
QueryFnReturn ==
  /\ qpc = "resp_ok"
  /\ cacheData' = qresp
  /\ cacheHas' = TRUE
  /\ cacheStale' = FALSE
  /\ qStatus' = "success"
  /\ qpc' = "idle"
  /\ qresp' = <<>>
  /\ UNCHANGED <<storeVars, mutVars, mounted, qReqs, qFailures>>

\* the mutate() calls are numbered in the order they are made
IsNextCall(m) == pc[m] = "idle" /\ \A k \in Muts : k < m => pc[k] # "idle"

\* ------------------------------------------------ update-status mutation
\* mutate({ id, status }): line 77-83, the update request is issued with
\* updated_at: new Date().toISOString() taken at the call
MutateUpdate(m, id, status) ==
  /\ IsNextCall(m)
  /\ args' = [args EXCEPT ![m] = [NoArgs EXCEPT !.kind = "update", !.id = id,
                                                !.status = status, !.ts = now]]
  /\ reqs' = [reqs EXCEPT ![m].update = @ + 1]
  /\ pc' = [pc EXCEPT ![m] = "upd_sent"]
  /\ UNCHANGED <<storeVars, ret, toasts, invals, cacheVars, queryVars>>

\* the store applies the update to the row with that id and returns it
\* (.select().single(), lines 82-83)
UpdateOk(m) ==
  /\ pc[m] = "upd_sent"
  /\ Cardinality(RowsWithId(orders, args[m].id)) = 1
  /\ orders' = UpdateRows(orders, args[m].id, args[m].status, args[m].ts)
  /\ ret' = [ret EXCEPT ![m] = orders'[CHOOSE i \in RowsWithId(orders, args[m].id) : TRUE]]
  /\ pc' = [pc EXCEPT ![m] = "upd_ok"]
  /\ UNCHANGED <<order_items, now, args, reqs, toasts, invals, cacheVars, queryVars>>

\* the store returns an error (the request failed, or .single() found no
\* row): line 85 throws it and onError, lines 95-101, reports it
UpdateErr(m) ==
  /\ pc[m] = "upd_sent"
  /\ toasts' = [toasts EXCEPT ![m] = Append(@, ErrorToast("Failed to update order status: ",
                     IF RowsWithId(orders, args[m].id) = {} THEN "no rows" ELSE "network"))]
  /\ pc' = [pc EXCEPT ![m] = "failed_upd"]
  /\ UNCHANGED <<storeVars, args, ret, reqs, invals, cacheVars, queryVars>>

\* onSuccess that also writes the new status into the cached list
UpdateOnSuccess_Optimistic(m) ==
  /\ pc[m] = "upd_ok"
  /\ cacheData' = [i \in DOMAIN cacheData |->
        IF cacheData[i].id = args[m].id
          THEN [cacheData[i] EXCEPT !.status = args[m].status] ELSE cacheData[i]]
  /\ cacheStale' = TRUE
  /\ IF mounted THEN StartFetch ELSE UNCHANGED <<qpc, qresp, qReqs, qFailures>>
  /\ invals' = [invals EXCEPT ![m] = @ + 1]
  /\ toasts' = [toasts EXCEPT ![m] = Append(@, SuccessToast("Order status updated",
                     "The order status has been updated successfully."))]
  /\ pc' = [pc EXCEPT ![m] = "done"]
  /\ UNCHANGED <<storeVars, args, ret, reqs, cacheHas, mounted, qStatus>>

\* line 86 return data; then onSuccess, lines 88-94
UpdateOnSuccess(m) ==
  /\ pc[m] = "upd_ok"
  /\ InvalidateOrders
  /\ invals' = [invals EXCEPT ![m] = @ + 1]
  /\ toasts' = [toasts EXCEPT ![m] = Append(@, SuccessToast("Order status updated",
                     "The order status has been updated successfully."))]
  /\ pc' = [pc EXCEPT ![m] = "done"]
  /\ UNCHANGED <<storeVars, args, ret, reqs>>

\* ------------------------------------------------- create-order mutation
\* mutate({ orderData, items }): lines 110-125, the order insert is issued
MutateCreate(m, orderData, items) ==
  /\ IsNextCall(m)
  /\ args' = [args EXCEPT ![m] = [NoArgs EXCEPT !.kind = "create",
                                                !.orderData = orderData, !.items = items]]
  /\ reqs' = [reqs EXCEPT ![m].order = @ + 1]
  /\ pc' = [pc EXCEPT ![m] = "ord_sent"]
  /\ UNCHANGED <<storeVars, ret, toasts, invals, cacheVars, queryVars>>

\* the store inserts the order row and returns it; the call goes on to map
\* the items and to issue the item insert (lines 127-141)
InsertOrderOk(m) ==
  /\ pc[m] = "ord_sent"
  /\ orders' = Append(orders, NewOrderRow(orders, args[m].orderData, now))
  /\ ret' = [ret EXCEPT ![m] = NewOrderRow(orders, args[m].orderData, now)]
  /\ reqs' = [reqs EXCEPT ![m].items = @ + 1]
  /\ pc' = [pc EXCEPT ![m] = "itm_sent"]
  /\ UNCHANGED <<order_items, now, args, toasts, invals, cacheVars, queryVars>>

\* the order error thrown only after the item insert has been issued
InsertOrderErr_AfterItems(m) ==
  /\ pc[m] = "ord_sent"
  /\ reqs' = [reqs EXCEPT ![m].items = @ + 1]
  /\ order_items' = InsertedItems(order_items, OrderItemsOf(ret[m], args[m].items))
  /\ toasts' = [toasts EXCEPT ![m] = Append(@, ErrorToast("Failed to create order: ", "order insert failed"))]
  /\ pc' = [pc EXCEPT ![m] = "failed_ord"]
  /\ UNCHANGED <<orders, now, args, ret, invals, cacheVars, queryVars>>

\* the store returns an error for the order insert: line 127 throws it and
\* onError, lines 154-160, reports it
InsertOrderErr(m) ==
  /\ pc[m] = "ord_sent"
  /\ toasts' = [toasts EXCEPT ![m] = Append(@, ErrorToast("Failed to create order: ", "order insert failed"))]
  /\ pc' = [pc EXCEPT ![m] = "failed_ord"]
  /\ UNCHANGED <<storeVars, args, ret, reqs, invals, cacheVars, queryVars>>

\* the store inserts the item rows (lines 139-141, itemsError = null)
InsertItemsOk(m) ==
  /\ pc[m] = "itm_sent"
  /\ order_items' = InsertedItems(order_items, OrderItemsOf(ret[m], args[m].items))
  /\ pc' = [pc EXCEPT ![m] = "itm_ok"]
  /\ UNCHANGED <<orders, now, args, ret, reqs, toasts, invals, cacheVars, queryVars>>

\* the item error answered with a compensating delete of the order row
InsertItemsErr_Rollback(m) ==
  /\ pc[m] = "itm_sent"
  /\ orders' = SelectSeq(orders, LAMBDA r : r.id # ret[m].id)
  /\ toasts' = [toasts EXCEPT ![m] = Append(@, ErrorToast("Failed to create order: ", "items insert failed"))]
  /\ pc' = [pc EXCEPT ![m] = "failed_itm"]
  /\ UNCHANGED <<order_items, now, args, ret, reqs, invals, cacheVars, queryVars>>

\* the item error answered with an invalidation of the list, the order row
\* being there already
InsertItemsErr_Invalidates(m) ==
  /\ pc[m] = "itm_sent"
  /\ InvalidateOrders
  /\ invals' = [invals EXCEPT ![m] = @ + 1]
  /\ toasts' = [toasts EXCEPT ![m] = Append(@, ErrorToast("Failed to create order: ", "items insert failed"))]
  /\ pc' = [pc EXCEPT ![m] = "failed_itm"]
  /\ UNCHANGED <<storeVars, args, ret, reqs>>

\* the item error answered with a second item insert
InsertItemsErr_Retry(m) ==
  /\ pc[m] = "itm_sent"
  /\ reqs' = [reqs EXCEPT ![m].items = @ + 1]
  /\ UNCHANGED <<storeVars, pc, args, ret, toasts, invals, cacheVars, queryVars>>

\* the store returns an error for the item insert: line 143 throws it and
\* onError, lines 154-160, reports it
InsertItemsErr(m) ==
  /\ pc[m] = "itm_sent"
  /\ toasts' = [toasts EXCEPT ![m] = Append(@, ErrorToast("Failed to create order: ", "items insert failed"))]
  /\ pc' = [pc EXCEPT ![m] = "failed_itm"]
  /\ UNCHANGED <<storeVars, args, ret, reqs, invals, cacheVars, queryVars>>

\* onSuccess without its invalidateQueries call
CreateOnSuccess_NoInvalidate(m) ==
  /\ pc[m] = "itm_ok"
  /\ toasts' = [toasts EXCEPT ![m] = Append(@, SuccessToast("Order created",
                     "Your order has been placed successfully."))]
  /\ pc' = [pc EXCEPT ![m] = "done"]
  /\ UNCHANGED <<storeVars, args, ret, reqs, invals, cacheVars, queryVars>>

\* line 145 return order; then onSuccess, lines 147-153
CreateOnSuccess(m) ==
  /\ pc[m] = "itm_ok"
  /\ InvalidateOrders
  /\ invals' = [invals EXCEPT ![m] = @ + 1]
  /\ toasts' = [toasts EXCEPT ![m] = Append(@, SuccessToast("Order created",
                     "Your order has been placed successfully."))]
  /\ pc' = [pc EXCEPT ![m] = "done"]
  /\ UNCHANGED <<storeVars, args, ret, reqs>>

\* ------------------------------------------------------- specification
\* the steps of the calls `calls`, with status arguments from S and `items`
\* arguments from L
NextOf(calls, S, L) ==
  \/ Fetch
  \/ SelectOk
  \/ SelectErr
  \/ QueryFnReturn
  \/ \E m \in calls, id \in 1..(Len(orders) + 1), status \in S : MutateUpdate(m, id, status)
  \/ \E m \in calls : UpdateOk(m)
  \/ \E m \in calls : UpdateErr(m)
  \/ \E m \in calls : UpdateOnSuccess(m)
  \/ \E m \in calls, orderData \in OrderDatas, items \in L : MutateCreate(m, orderData, items)
  \/ \E m \in calls : InsertOrderOk(m)
  \/ \E m \in calls : InsertOrderErr(m)
  \/ \E m \in calls : InsertItemsOk(m)
  \/ \E m \in calls : InsertItemsErr(m)
  \/ \E m \in calls : CreateOnSuccess(m)

\* Spec: MaxMuts calls in flight at once, over one stored order, in the time
\* of one clock value
Init == InitIn({<<InitOrderRow(1, 0)>>})
Next == NextOf(Muts, {"preparing", "cancelled"}, {<<>>, <<CHOOSE x \in ItemInputs : x.selected_options = Absent /\ x.selected_add_ons # Absent>>})
Spec == Init /\ [][Next]_vars

\* SpecData: one call, over every store, status and item list
InitData == InitIn(InitStores)
NextData == Tick \/ NextOf({1}, Statuses, ItemLists)
SpecData == InitData /\ [][NextData]_vars

\* ---------------------------------------------------------- properties
Failed == {"failed_upd", "failed_ord", "failed_itm"}

ErrorToasts(ts) == Len(SelectSeq(ts, LAMBDA t : t.destructive))
SuccessToasts(ts) == Len(SelectSeq(ts, LAMBDA t : ~t.destructive))

IsCreate(m) == args[m].kind = "create"
IsUpdate(m) == args[m].kind = "update"

\* the item rows of the table that carry the id of the order returned to m
ItemRowsOf(m) == ItemsOfOrder(order_items, ret[m].id)

\* the number of input items of the create-order calls 1..k whose item
\* insert has succeeded
RECURSIVE ItemsInserted(_)
ItemsInserted(k) ==
  IF k = 0 THEN 0
  ELSE ItemsInserted(k - 1)
       + (IF IsCreate(k) /\ pc[k] \in {"itm_ok", "done"} THEN Len(args[k].items) ELSE 0)

\* C1: a create-order call with N >= 0 items whose two inserts succeeded has
\* added exactly N rows to order_items, each with the id of the order row the
\* call inserted and the fields of its input item, selected_options and
\* selected_add_ons being the empty object where the input omitted them; the
\* order row is in the store, and the call ends without an error (also N = 0).
C1_CreateInsertsItems ==
  /\ Len(order_items) = ItemsInserted(MaxMuts)
  /\ \A m \in Muts : (IsCreate(m) /\ pc[m] \in {"itm_ok", "done"}) =>
       /\ Cardinality(RowsWithId(orders, ret[m].id)) = 1
       /\ Len(ItemRowsOf(m)) = Len(args[m].items)
       /\ \A i \in DOMAIN args[m].items :
            LET row == ItemRowsOf(m)[i]
                item == args[m].items[i]
            IN  /\ row.order_id = ret[m].id
                /\ row.menu_item_id = item.menu_item_id
                /\ row.quantity = item.quantity
                /\ row.price = item.price
                /\ row.selected_options =
                     (IF item.selected_options = Absent THEN EmptyObj ELSE item.selected_options)
                /\ row.selected_add_ons =
                     (IF item.selected_add_ons = Absent THEN EmptyObj ELSE item.selected_add_ons)
       /\ (pc[m] = "done" => ErrorToasts(toasts[m]) = 0)

\* a finished create-order call of two items or more, one that omitted both
\* mappings and one that gave both
C1_Witness ==
  \E m \in Muts :
    /\ IsCreate(m) /\ pc[m] = "done"
    /\ Len(args[m].items) >= 2
    /\ Len(ItemRowsOf(m)) = Len(args[m].items)
    /\ \E i \in DOMAIN args[m].items :
         /\ args[m].items[i].selected_options = Absent
         /\ args[m].items[i].selected_add_ons = Absent
         /\ ItemRowsOf(m)[i].selected_options = EmptyObj
    /\ \E i \in DOMAIN args[m].items :
         /\ args[m].items[i].selected_options # Absent
         /\ args[m].items[i].selected_add_ons # Absent

\* C2: a create-order call whose order insert failed never issues an item
\* insert, and the step in which it fails leaves order_items (and orders) as
\* they were.
C2_OrderFailureWritesNoItems ==
  [][\A m \in Muts : pc'[m] = "failed_ord" =>
        /\ reqs'[m].items = 0
        /\ reqs'[m].order = 1
        /\ (pc[m] # "failed_ord" => order_items' = order_items /\ orders' = orders)]_vars

\* a create-order call of one item or more whose order insert failed, while
\* another create-order call has inserted its items
C2_Witness ==
  \E m, k \in Muts :
    /\ pc[m] = "failed_ord" /\ Len(args[m].items) > 0
    /\ IsCreate(k) /\ pc[k] \in {"itm_ok", "done"} /\ Len(order_items) > 0

\* C3: after a create-order call's item insert failed, the order row it
\* inserted is in orders in every later state, no item row carries its id, and
\* the list a fetch would return holds that order with no items.
C3_OrderRowSurvivesItemFailure ==
  \A m \in Muts : pc[m] = "failed_itm" =>
    /\ Cardinality(RowsWithId(orders, ret[m].id)) = 1
    /\ ItemRowsOf(m) = <<>>
    /\ \E i \in DOMAIN SelectOrders(orders, order_items) :
         /\ SelectOrders(orders, order_items)[i].id = ret[m].id
         /\ SelectOrders(orders, order_items)[i].order_items = <<>>

\* a later fetch has answered with the order of the failed call, itemless,
\* and the cache holds that answer
C3_Witness ==
  \E m \in Muts :
    /\ pc[m] = "failed_itm" /\ Len(args[m].items) > 0
    /\ cacheHas
    /\ \E i \in DOMAIN cacheData :
         cacheData[i].id = ret[m].id /\ cacheData[i].order_items = <<>>

\* C4: the step in which an update-status or create-order call fails leaves
\* the 'orders' cache entry (data, staleness, fetch in flight) as it was; a
\* failed call has made no invalidateQueries call and has emitted exactly one
\* error notification and no success notification.
C4_FailureLeavesCache ==
  [][\A m \in Muts : pc'[m] \in Failed =>
        /\ invals'[m] = 0
        /\ ErrorToasts(toasts'[m]) = 1
        /\ SuccessToasts(toasts'[m]) = 0
        /\ (pc[m] \notin Failed =>
              /\ <<cacheHas, cacheData, cacheStale>>' = <<cacheHas, cacheData, cacheStale>>
              /\ <<qpc, qresp, qReqs>>' = <<qpc, qresp, qReqs>>)]_vars

\* a create-order call failed at its item insert and an update-status call
\* failed, under a cache entry that holds fetched data and is not stale
C4_Witness ==
  \E m, k \in Muts :
    /\ pc[m] = "failed_itm"
    /\ pc[k] = "failed_upd"
    /\ cacheHas /\ ~cacheStale /\ qpc = "idle"

\* the remote writes of call m are in the store
WritesDone(m) ==
  IF IsUpdate(m)
    THEN /\ reqs[m].update = 1
         /\ ret[m].id = args[m].id /\ ret[m].status = args[m].status
    ELSE /\ reqs[m].order = 1 /\ reqs[m].items = 1
         /\ Cardinality(RowsWithId(orders, ret[m].id)) = 1
         /\ Len(ItemRowsOf(m)) = Len(args[m].items)

\* C5: a call that succeeds has invalidated the 'orders' entry exactly once
\* and emitted exactly one success notification (and no error notification);
\* the invalidation is made after the call's remote writes, marks the entry
\* stale and, the list being observed, starts a fetch. This holds of each of
\* the calls in flight together.
C5_SuccessInvalidates ==
  [][\A m \in Muts :
        /\ pc'[m] = "done" =>
              /\ invals'[m] = 1
              /\ SuccessToasts(toasts'[m]) = 1
              /\ ErrorToasts(toasts'[m]) = 0
        /\ invals'[m] # invals[m] =>
              /\ pc[m] \in {"upd_ok", "itm_ok"} /\ pc'[m] = "done"
              /\ WritesDone(m)
              /\ cacheStale'
              /\ (mounted => qpc' = "sent" /\ qReqs' = 1)]_vars

\* call 2, made after call 1, has succeeded and started the refetch while
\* call 1, of the other kind, has written and not yet run its onSuccess
C5_Witness ==
  /\ pc[2] = "done" /\ invals[2] = 1
  /\ pc[1] \in {"upd_ok", "itm_ok"} /\ invals[1] = 0
  /\ args[1].kind # args[2].kind
  /\ cacheStale /\ mounted /\ qpc = "sent"

\* the step of call m is the store's successful update
UpdateApplied(m) == pc[m] = "upd_sent" /\ pc'[m] = "upd_ok"

\* the step of call m ends its update request, well or badly
UpdateAnswered(m) == pc[m] = "upd_sent" /\ pc'[m] # "upd_sent"

\* the effect C6 describes, of call m, on this step
UpdateEffect(m) ==
  /\ Cardinality(RowsWithId(orders, args[m].id)) = 1
  /\ Len(orders') = Len(orders)
  /\ \A i \in DOMAIN orders :
       IF orders[i].id = args[m].id
         THEN /\ orders'[i] = [orders[i] EXCEPT !.status = args[m].status,
                                                 !.updated_at = args[m].ts]
              /\ ret'[m] = orders'[i]
         ELSE orders'[i] = orders[i]
  /\ order_items' = order_items

\* C6 (amended): for each of the five status values and each id of a stored
\* order, an update-status call whose request succeeds changes exactly the row
\* with that id, to that status and to the updated_at taken at the call (the
\* current time of the call), leaves every other row and every other field as
\* they were, and returns the updated row; a call whose request fails, the id
\* matching no row included, changes no row.
C6_UpdateOneRow ==
  [][\A m \in Muts :
        /\ UpdateApplied(m) => UpdateEffect(m)
        /\ (UpdateAnswered(m) /\ ~UpdateApplied(m)) =>
              orders' = orders /\ order_items' = order_items]_vars

\* C6 as stated: every update-status call, for every id, has that effect
C6_AsStated ==
  [][\A m \in Muts : UpdateAnswered(m) => UpdateEffect(m)]_vars

\* an update of the second of two rows has been applied at a later clock
\* value, to a status other than the row's
C6_Witness ==
  \E m \in Muts :
    /\ IsUpdate(m) /\ pc[m] = "upd_ok"
    /\ Len(orders) >= 2
    /\ args[m].id = 2 /\ args[m].status = "served"
    /\ ret[m].updated_at > ret[m].created_at
    /\ \E i \in DOMAIN orders : orders[i] = ret[m]

\* no element has a later created_at than an element before it
SortedDescending(list) ==
  \A i, j \in DOMAIN list : i < j => list[i].created_at >= list[j].created_at

\* the list holds each row of `ords` once, with its fields, and nothing else
HoldsEachOnce(list, ords) ==
  /\ Len(list) = Len(ords)
  /\ \A i \in DOMAIN ords :
       /\ Cardinality({j \in DOMAIN list : list[j].id = ords[i].id}) = 1
       /\ \E j \in DOMAIN list :
            /\ list[j].id = ords[i].id
            /\ list[j].order_number = ords[i].order_number
            /\ list[j].status = ords[i].status
            /\ list[j].created_at = ords[i].created_at
            /\ list[j].updated_at = ords[i].updated_at

\* C7: the list a successful list-orders fetch returns holds every order row
\* of the store once and is sorted by created_at descending, whatever the
\* order of the rows in the store; so is the list the cache holds.
C7_ListSortedAndComplete ==
  [][/\ (qpc = "sent" /\ qpc' = "resp_ok") =>
          HoldsEachOnce(qresp', orders) /\ SortedDescending(qresp')
     /\ cacheHas' => SortedDescending(cacheData')]_vars

\* the cache holds a fetched list of three orders or more, of more than one
\* creation time, of a store whose rows are not in descending order
C7_Witness ==
  /\ cacheHas /\ Len(cacheData) >= 3
  /\ HoldsEachOnce(cacheData, orders)
  /\ ~SortedDescending(orders)
  /\ cacheData[1].created_at > cacheData[Len(cacheData)].created_at

C9_NoOptimisticUpdate ==
  [][<<cacheHas, cacheData>>' # <<cacheHas, cacheData>> =>
        /\ qpc = "resp_ok" /\ qpc' = "idle"
        /\ cacheHas' /\ cacheData' = qresp
        /\ pc' = pc /\ orders' = orders]_vars

\* the cached rows of the order with that id
CachedRows(data, id) == {j \in DOMAIN data : data[j].id = id}

\* C9 as stated, of a call m that is the only update-status call: from its
\* write until its onSuccess has run (the refetch it triggers is then not
\* even started) the cached list does not come to show the new status
C9_AsStated ==
  [][\A m \in Muts :
        (/\ IsUpdate(m) /\ pc[m] = "upd_ok"
         /\ \A k \in Muts \ {m} : ~IsUpdate(k)
         /\ cacheHas
         /\ \A j \in CachedRows(cacheData, args[m].id) : cacheData[j].status # args[m].status)
        => \A j \in CachedRows(cacheData', args[m].id) : cacheData'[j].status # args[m].status]_vars

\* an update-status call has succeeded and run its onSuccess, the store has
\* the new status, the refetch is in flight and the cached list shows the old
C9_Witness ==
  \E m \in Muts :
    /\ IsUpdate(m) /\ pc[m] = "done"
    /\ qpc \in {"sent", "resp_ok"} /\ cacheHas /\ cacheStale
    /\ \E i \in DOMAIN orders : orders[i].id = args[m].id /\ orders[i].status = args[m].status
    /\ \E j \in DOMAIN cacheData :
         cacheData[j].id = args[m].id /\ cacheData[j].status # args[m].status

\* C10: every row of order_items has the id of a row of orders as its
\* order_id, after any interleaving of the three operations.
C10_ItemsReferenceOrders ==
  \A i \in DOMAIN order_items : RowsWithId(orders, order_items[i].order_id) # {}

\* items of a created order are stored, a second create-order call has failed
\* at its item insert, and the list has been fetched
C10_Witness ==
  /\ Len(order_items) > 0
  /\ \E m \in Muts : pc[m] = "failed_itm"
  /\ cacheHas /\ Len(cacheData) > 1

====
